---- MODULE Spec2Model ----
(***************************************************************************)
(* Association-rule mining pipeline of market_basket_analysis:             *)
(* Analyzer.run() = apriori -> association_rules -> Zhang's metric ->      *)
(* threshold filter -> sort (src/src/analyzer.py), over a one-hot          *)
(* transaction matrix; and the Recommender's queries over a rule set       *)
(* (src/src/recommender.py).                                               *)
(*                                                                         *)
(* Numbers.  Supports and metrics are float64 in the program.  They are    *)
(* modelled as exact rationals <<numerator, denominator>> in lowest terms  *)
(* with a positive denominator, so equality of two metrics is equality of  *)
(* their pairs.  Rounding error of float64 is outside this model.          *)
(*                                                                         *)
(* Matrix.  Nothing in the Analyzer depends on the order of the rows, so   *)
(* the matrix is the bag of its rows: one_hot_df[R] is the number of rows  *)
(* whose True columns are exactly R.  Columns are numbered in column       *)
(* order.                                                                  *)
(***************************************************************************)
EXTENDS Integers, Sequences, FiniteSets, TLC

VARIABLES
    config,          \* the threshold constants of src/config.py in force
    tie_order,       \* how this build's quicksort orders equal keys
    one_hot_df,      \* Analyzer.one_hot_df, as a bag of rows
    itemsets_df,     \* Analyzer.itemsets_df: None or Some(sequence of itemsets)
    raw_rules,       \* local raw_rules of Analyzer.run()
    filtered_rules,  \* local filtered_rules of Analyzer.run()
    rules_df,        \* Analyzer.rules_df: None or Some(sequence of rules)
    pc,              \* position in the pipeline
    recommender,     \* Recommender.rules_df: None before __init__, or Some
    call,            \* the query being answered: None or Some(arguments)
    result,          \* what that query returned: None or Some(DataFrame)
    threads          \* the queries running concurrently, one per thread

rec_vars == <<recommender, call, result, threads>>

vars == <<config, tie_order, one_hot_df, itemsets_df, raw_rules,
          filtered_rules, rules_df, pc, recommender, call, result, threads>>

\* Largest number of transactions of a matrix built row by row.
MaxRows == 6

\* The columns of the matrix, in column order.
Items == {1, 2, 3}

\* Python's None and a value that is not None.
None == <<>>
Some(v) == <<v>>

-----------------------------------------------------------------------------
(* Exact rational arithmetic standing for float64 arithmetic.              *)

Abs(n) == IF n < 0 THEN -n ELSE n

RECURSIVE GCD(_, _)
GCD(a, b) == IF b = 0 THEN a ELSE GCD(b, a % b)

\* n/d in lowest terms, d > 0.
Rat(n, d) ==
    LET g == GCD(Abs(n), d)
    IN  IF n = 0 THEN <<0, 1>> ELSE <<n \div g, d \div g>>

Zero == Rat(0, 1)
One == Rat(1, 1)

RSub(x, y) == Rat(x[1] * y[2] - y[1] * x[2], x[2] * y[2])
RMul(x, y) == Rat(x[1] * y[1], x[2] * y[2])
\* x / y for y # 0.
RDiv(x, y) ==
    IF y[1] > 0 THEN Rat(x[1] * y[2], x[2] * y[1])
                ELSE Rat(-(x[1] * y[2]), -(x[2] * y[1]))
RLt(x, y) == x[1] * y[2] < y[1] * x[2]
RLeq(x, y) == x[1] * y[2] <= y[1] * x[2]
RGt(x, y) == RLt(y, x)
RGeq(x, y) == RLeq(y, x)
RMaximum(x, y) == IF RLt(x, y) THEN y ELSE x

-----------------------------------------------------------------------------
(* Configuration: the APRIORI_* constants of src/config.py.                *)

\* The values config.py ships.
DefaultConfig ==
    [min_support    |-> Rat(1, 100),
     min_confidence |-> Rat(60, 100),
     min_lift       |-> Rat(1, 1),
     min_zhang      |-> Rat(0, 1)]

\* config.py edited to other valid thresholds: a higher min_support, and
\* other filter thresholds.
EditedSupport == [DefaultConfig EXCEPT !.min_support = Rat(1, 2)]
EditedFilter ==
    [DefaultConfig EXCEPT !.min_confidence = Rat(1, 2),
                          !.min_lift = Rat(3, 2),
                          !.min_zhang = Rat(1, 2)]

\* config.py edited to an invalid min_support: not positive, above 1.
ZeroSupport == [DefaultConfig EXCEPT !.min_support = Rat(0, 1)]
ExcessSupport == [DefaultConfig EXCEPT !.min_support = Rat(3, 2)]

ValidConfigs == {DefaultConfig, EditedSupport, EditedFilter}
InvalidConfigs == {ZeroSupport, ExcessSupport}
Configs == ValidConfigs \cup InvalidConfigs

APRIORI_MIN_SUPPORT == config.min_support
APRIORI_MIN_CONFIDENCE == config.min_confidence
APRIORI_MIN_LIFT == config.min_lift
APRIORI_MIN_ZHANG == config.min_zhang
APRIORI_METRIC == "lift"
\* Mutant of the generation threshold: above the filter's min_lift.
APRIORI_MIN_THRESHOLD_above_min_lift == Rat(2, 1)

APRIORI_MIN_THRESHOLD == Rat(1, 10)

-----------------------------------------------------------------------------
(* The transaction matrix.                                                 *)

RowTypes == SUBSET Items

EmptyMatrix == [R \in RowTypes |-> 0]

RECURSIVE SumOver(_, _)
SumOver(df, S) ==
    IF S = {} THEN 0
    ELSE LET R == CHOOSE R \in S : TRUE
         IN  df[R] + SumOver(df, S \ {R})

\* Number of rows of the matrix (df.shape[0]).
NumRows(df) == SumOver(df, RowTypes)

\* Mutant of the row count: rows in which any column of I is True.
CountRows_any(df, I) ==
    SumOver(df, {R \in RowTypes : I = {} \/ I \cap R # {}})

\* Number of rows in which every column of I is True.
CountRows(df, I) == SumOver(df, {R \in RowTypes : I \subseteq R})

-----------------------------------------------------------------------------
(* mlxtend.frequent_patterns.apriori, as Analyzer._find_frequent_itemsets  *)
(* calls it (use_colnames=True, max_len=None, low_memory=False).           *)

Range(t) == {t[i] : i \in 1..Len(t)}

\* The elements of a set of column numbers, ascending.
RECURSIVE SortedSeq(_)
SortedSeq(S) ==
    IF S = {} THEN <<>>
    ELSE LET m == CHOOSE m \in S : \A x \in S : m <= x
         IN  <<m>> \o SortedSeq(S \ {m})

\* _support: column sums divided by the number of rows.  With no rows the
\* program computes 0/0 = nan, and no comparison with nan is true.
SupportIsNan(df) == NumRows(df) = 0
Support(df, I) == Rat(CountRows(df, I), NumRows(df))

\* Mutant of the mask: support > min_support.
SupportMask_strict(df, I, min_support) ==
    /\ ~SupportIsNan(df)
    /\ RGt(Support(df, I), min_support)

\* support >= min_support
SupportMask(df, I, min_support) ==
    /\ ~SupportIsNan(df)
    /\ RGeq(Support(df, I), min_support)

\* generate_new_combinations: every combination of the previous level, in
\* order, extended by each item of the previous level greater than its last.
RECURSIVE generate_new_combinations(_, _)
generate_new_combinations(old_combinations, i) ==
    IF i > Len(old_combinations) THEN <<>>
    ELSE LET items_types_in_previous_step ==
                 UNION {Range(old_combinations[j]) :
                            j \in 1..Len(old_combinations)}
             old_tuple == old_combinations[i]
             valid_items ==
                 SortedSeq({x \in items_types_in_previous_step :
                                x > old_tuple[Len(old_tuple)]})
         IN  [j \in 1..Len(valid_items) |-> Append(old_tuple, valid_items[j])]
             \o generate_new_combinations(old_combinations, i + 1)

\* The levels after `level`: the while loop of apriori.  It stops when no
\* candidate is generated or none passes the mask.
RECURSIVE AprioriLevels(_, _, _)
AprioriLevels(df, min_support, level) ==
    LET combin == generate_new_combinations(level, 1)
        kept == SelectSeq(combin,
                    LAMBDA c : SupportMask(df, Range(c), min_support))
    IN  IF combin = <<>> \/ kept = <<>> THEN <<>>
        ELSE kept \o AprioriLevels(df, min_support, kept)

\* The combinations whose support the while loop computes (_support over
\* the columns of each generated combination), level after level.
RECURSIVE AprioriCandidates(_, _, _)
AprioriCandidates(df, min_support, level) ==
    LET combin == generate_new_combinations(level, 1)
        kept == SelectSeq(combin,
                    LAMBDA c : SupportMask(df, Range(c), min_support))
    IN  IF combin = <<>> \/ kept = <<>> THEN combin
        ELSE combin \o AprioriCandidates(df, min_support, kept)

\* The number of passes of the while loop (max_itemset grows by one a pass).
RECURSIVE AprioriPasses(_, _, _)
AprioriPasses(df, min_support, level) ==
    LET combin == generate_new_combinations(level, 1)
        kept == SelectSeq(combin,
                    LAMBDA c : SupportMask(df, Range(c), min_support))
    IN  IF level = <<>> THEN 0
        ELSE IF combin = <<>> \/ kept = <<>> THEN 1
        ELSE 1 + AprioriPasses(df, min_support, kept)

\* The frequent 1-itemsets, the first level.
AprioriSingles(df, min_support) ==
    SelectSeq([j \in 1..Cardinality(Items) |-> <<SortedSeq(Items)[j]>>],
              LAMBDA c : SupportMask(df, Range(c), min_support))

\* The frequent itemsets, level by level: rows (support, itemsets).
apriori(df, min_support) ==
    LET singles == [j \in 1..Cardinality(Items) |-> <<SortedSeq(Items)[j]>>]
        level1 == SelectSeq(singles,
                      LAMBDA c : SupportMask(df, Range(c), min_support))
        all_res == level1 \o AprioriLevels(df, min_support, level1)
    IN  [j \in 1..Len(all_res) |->
            [support |-> Support(df, Range(all_res[j])),
             itemsets |-> Range(all_res[j])]]

-----------------------------------------------------------------------------
(* mlxtend.frequent_patterns.association_rules, as Analyzer._generate_rules *)
(* calls it (metric and min_threshold from config.py).                      *)

\* itertools.combinations(k, r): the r-subsets of k in lexicographic order
\* of positions.  A frozenset is taken to iterate in column order.
RECURSIVE combinations(_, _)
combinations(k, r) ==
    IF r = 0 THEN <<{}>>
    ELSE IF Cardinality(k) < r THEN <<>>
    ELSE LET m == CHOOSE m \in k : \A x \in k : m <= x
             with == combinations(k \ {m}, r - 1)
         IN  [j \in 1..Len(with) |-> with[j] \cup {m}]
             \o combinations(k \ {m}, r)

\* frequent_items_dict: itemset -> support.
InFrequentItemsDict(df, I) == \E j \in 1..Len(df) : df[j].itemsets = I
frequent_items_dict(df, I) ==
    df[CHOOSE j \in 1..Len(df) : df[j].itemsets = I].support

\* The metrics association_rules computes from sAC, sA, sC.
confidence_metric(sAC, sA, sC) == RDiv(sAC, sA)
\* Mutant of lift: the support of the rule over the consequent's.
lift_metric_no_antecedent(sAC, sA, sC) == RDiv(sAC, sC)

lift_metric(sAC, sA, sC) == RDiv(confidence_metric(sAC, sA, sC), sC)

\* score >= min_threshold, the score being the metric named by `metric`.
ScoreMask(metric, min_threshold, sAC, sA, sC) ==
    IF metric = "lift"
    THEN RGeq(lift_metric(sAC, sA, sC), min_threshold)
    ELSE RGeq(confidence_metric(sAC, sA, sC), min_threshold)

\* The splits of itemset k: antecedents of size len(k)-1 down to 1.
RECURSIVE SplitsOf(_, _)
SplitsOf(k, idx) ==
    IF idx < 1 THEN <<>>
    ELSE LET cs == combinations(k, idx)
         IN  [j \in 1..Len(cs) |->
                 [antecedents |-> cs[j], consequents |-> k \ cs[j]]]
             \o SplitsOf(k, idx - 1)

RECURSIVE AllSplits(_, _)
AllSplits(df, i) ==
    IF i > Len(df) THEN <<>>
    ELSE LET k == df[i].itemsets
             sp == SplitsOf(k, Cardinality(k) - 1)
         IN  [j \in 1..Len(sp) |->
                 [antecedents |-> sp[j].antecedents,
                  consequents |-> sp[j].consequents,
                  itemset     |-> k]]
             \o AllSplits(df, i + 1)

\* A split whose antecedent or consequent is no key of the dict: KeyError.
RulesKeyError(df) ==
    LET sp == AllSplits(df, 1)
    IN  \E j \in 1..Len(sp) :
            \/ ~InFrequentItemsDict(df, sp[j].antecedents)
            \/ ~InFrequentItemsDict(df, sp[j].consequents)

\* Mutant of the row: the support column filled with the antecedent's.
RuleRow_antecedent_support(df, s) ==
    LET sAC == frequent_items_dict(df, s.itemset)
        sA  == frequent_items_dict(df, s.antecedents)
        sC  == frequent_items_dict(df, s.consequents)
    IN  [antecedents        |-> s.antecedents,
         consequents        |-> s.consequents,
         antecedent_support |-> sA,
         consequent_support |-> sC,
         support            |-> sA,
         confidence         |-> confidence_metric(sAC, sA, sC),
         lift               |-> lift_metric(sAC, sA, sC)]

\* The row of the rules DataFrame for split s of itemset s.itemset.
RuleRow(df, s) ==
    LET sAC == frequent_items_dict(df, s.itemset)
        sA  == frequent_items_dict(df, s.antecedents)
        sC  == frequent_items_dict(df, s.consequents)
    IN  [antecedents        |-> s.antecedents,
         consequents        |-> s.consequents,
         antecedent_support |-> sA,
         consequent_support |-> sC,
         support            |-> sAC,
         confidence         |-> confidence_metric(sAC, sA, sC),
         lift               |-> lift_metric(sAC, sA, sC)]

\* The rules DataFrame: one row per split that passes the threshold.
association_rules(df, metric, min_threshold) ==
    LET sp == AllSplits(df, 1)
        kept == SelectSeq(sp,
                    LAMBDA s : ScoreMask(metric, min_threshold,
                                   frequent_items_dict(df, s.itemset),
                                   frequent_items_dict(df, s.antecedents),
                                   frequent_items_dict(df, s.consequents)))
    IN  [j \in 1..Len(kept) |-> RuleRow(df, kept[j])]

-----------------------------------------------------------------------------
(* Analyzer._add_zhangs_metric.                                            *)

\* Mutants of the metric: np.minimum for np.maximum; the denominator's
\* first term alone.
zhangs_metric_minimum(p_ab, p_a, p_b) ==
    LET numerator == RSub(p_ab, RMul(p_a, p_b))
        x == RMul(p_ab, RSub(One, p_a))
        y == RMul(p_a, RSub(p_b, p_ab))
        denominator == IF RLt(x, y) THEN x ELSE y
    IN  IF denominator = Zero THEN Zero
        ELSE RDiv(numerator, denominator)

zhangs_metric_first_term(p_ab, p_a, p_b) ==
    LET numerator == RSub(p_ab, RMul(p_a, p_b))
        denominator == RMul(p_ab, RSub(One, p_a))
    IN  IF denominator = Zero THEN Zero
        ELSE RDiv(numerator, denominator)

\* Mutant of the metric: the numerator's terms exchanged.
zhangs_metric_exchanged(p_ab, p_a, p_b) ==
    LET numerator == RSub(RMul(p_a, p_b), p_ab)
        denominator == RMaximum(RMul(p_ab, RSub(One, p_a)),
                                RMul(p_a, RSub(p_b, p_ab)))
    IN  IF denominator = Zero THEN Zero
        ELSE RDiv(numerator, denominator)

zhangs_metric(p_ab, p_a, p_b) ==
    LET numerator == RSub(p_ab, RMul(p_a, p_b))
        denominator == RMaximum(RMul(p_ab, RSub(One, p_a)),
                                RMul(p_a, RSub(p_b, p_ab)))
    IN  IF denominator = Zero THEN Zero
        ELSE RDiv(numerator, denominator)

\* The rules with the new column zhangs_metric.
add_zhangs_metric(rules) ==
    [j \in 1..Len(rules) |->
        [zhangs_metric |-> zhangs_metric(rules[j].support,
                                         rules[j].antecedent_support,
                                         rules[j].consequent_support)]
        @@ rules[j]]

-----------------------------------------------------------------------------
(* Analyzer._filter_rules.                                                 *)

\* Mutants of the filter: the confidence test left out; lift compared
\* with >= instead of >.
FilterMask_no_confidence(r) ==
    /\ RGt(r.lift, APRIORI_MIN_LIFT)
    /\ RGt(r.zhangs_metric, APRIORI_MIN_ZHANG)

FilterMask_lift_geq(r) ==
    /\ RGeq(r.confidence, APRIORI_MIN_CONFIDENCE)
    /\ RGeq(r.lift, APRIORI_MIN_LIFT)
    /\ RGt(r.zhangs_metric, APRIORI_MIN_ZHANG)

FilterMask(r) ==
    /\ RGeq(r.confidence, APRIORI_MIN_CONFIDENCE)
    /\ RGt(r.lift, APRIORI_MIN_LIFT)
    /\ RGt(r.zhangs_metric, APRIORI_MIN_ZHANG)

filter_rules(rules) == SelectSeq(rules, FilterMask)

-----------------------------------------------------------------------------
(* filtered_rules.sort_values("zhangs_metric", ascending=False)            *)
(*               .reset_index(drop=True)                                   *)
(* sort_values is called with its default kind="quicksort", which pandas   *)
(* documents as not stable: rows with equal keys come out in an order the  *)
(* build's numpy argsort fixes.  tie_order is that order: "stable" keeps   *)
(* equal keys in input order, "reversed" puts them in reverse input order. *)

TieOrders == {"stable", "reversed"}

\* Number of rows of the sorted prefix `acc` that stay before row r.
RowsBefore(acc, r, tie) ==
    Cardinality({j \in 1..Len(acc) :
        IF tie = "stable"
        THEN RGeq(acc[j].zhangs_metric, r.zhangs_metric)
        ELSE RGt(acc[j].zhangs_metric, r.zhangs_metric)})

InsertRow(acc, r, tie) ==
    LET n == RowsBefore(acc, r, tie)
    IN  SubSeq(acc, 1, n) \o <<r>> \o SubSeq(acc, n + 1, Len(acc))

RECURSIVE SortFrom(_, _, _, _)
SortFrom(df, i, acc, tie) ==
    IF i > Len(df) THEN acc
    ELSE SortFrom(df, i + 1, InsertRow(acc, df[i], tie), tie)

\* Mutant of the sort: ascending=True.
sort_values_ascending(df, tie) ==
    LET d == SortFrom(df, 1, <<>>, tie)
    IN  [j \in 1..Len(d) |-> d[Len(d) + 1 - j]]

\* Mutant of the sort: the order depends on what an earlier run() left in
\* rules_df.
sort_values_after_first(df, tie) ==
    IF rules_df = None THEN SortFrom(df, 1, <<>>, tie)
    ELSE sort_values_ascending(df, tie)

sort_values(df, tie) == SortFrom(df, 1, <<>>, tie)

-----------------------------------------------------------------------------
(* State machine.                                                          *)

\* The threads that query one Recommender, and a thread with no query.
Threads == {1, 2}
IdleThread == [pc |-> "idle", query |-> None, rules |-> <<>>, result |-> None]

Init ==
    /\ config \in Configs
    /\ tie_order \in TieOrders
    /\ one_hot_df = EmptyMatrix
    /\ itemsets_df = None
    /\ raw_rules = <<>>
    /\ filtered_rules = <<>>
    /\ rules_df = None
    /\ pc = "build"
    /\ recommender = None
    /\ call = None
    /\ result = None
    /\ threads = [t \in Threads |-> IdleThread]

\* Preprocessor.build_one_hot_matrix: one row per basket, True in the
\* columns of the basket's items.
AddTransaction(basket) ==
    /\ pc = "build"
    /\ NumRows(one_hot_df) < MaxRows
    /\ one_hot_df' = [one_hot_df EXCEPT ![basket] = @ + 1]
    /\ UNCHANGED <<config, tie_order, itemsets_df, raw_rules,
                   filtered_rules, rules_df, pc>>
    /\ UNCHANGED rec_vars

\* Analyzer.__init__(one_hot_df)
AnalyzerInit ==
    /\ pc = "build"
    /\ itemsets_df' = None
    /\ rules_df' = None
    /\ pc' = "new"
    /\ UNCHANGED <<config, tie_order, one_hot_df, raw_rules, filtered_rules>>
    /\ UNCHANGED rec_vars

\* run(), step 1: self.itemsets_df = self._find_frequent_itemsets().
\* apriori raises ValueError when min_support <= 0.
FindFrequentItemsets ==
    /\ pc = "new"
    /\ IF RLeq(APRIORI_MIN_SUPPORT, Zero)
       THEN /\ pc' = "raised"
            /\ UNCHANGED itemsets_df
       ELSE /\ itemsets_df' = Some(apriori(one_hot_df, APRIORI_MIN_SUPPORT))
            /\ pc' = "mined"
    /\ UNCHANGED <<config, tie_order, one_hot_df, raw_rules,
                   filtered_rules, rules_df>>
    /\ UNCHANGED rec_vars

\* run(), step 2: raw_rules = self._generate_rules().
\* association_rules raises ValueError when the itemsets frame is empty and
\* KeyError when a split's antecedent or consequent has no support.
GenerateRules ==
    /\ pc = "mined"
    /\ IF Len(itemsets_df[1]) = 0 \/ RulesKeyError(itemsets_df[1])
       THEN /\ pc' = "raised"
            /\ UNCHANGED raw_rules
       ELSE /\ raw_rules' = association_rules(itemsets_df[1], APRIORI_METRIC,
                                              APRIORI_MIN_THRESHOLD)
            /\ pc' = "generated"
    /\ UNCHANGED <<config, tie_order, one_hot_df, itemsets_df,
                   filtered_rules, rules_df>>
    /\ UNCHANGED rec_vars

\* run(), step 3: raw_rules = self._add_zhangs_metric(raw_rules).
AddZhangsMetric ==
    /\ pc = "generated"
    /\ raw_rules' = add_zhangs_metric(raw_rules)
    /\ pc' = "scored"
    /\ UNCHANGED <<config, tie_order, one_hot_df, itemsets_df,
                   filtered_rules, rules_df>>
    /\ UNCHANGED rec_vars

\* run(), step 4: filtered_rules = self._filter_rules(raw_rules).
FilterRules ==
    /\ pc = "scored"
    /\ filtered_rules' = filter_rules(raw_rules)
    /\ pc' = "filtered"
    /\ UNCHANGED <<config, tie_order, one_hot_df, itemsets_df,
                   raw_rules, rules_df>>
    /\ UNCHANGED rec_vars

\* run(), step 5: self.rules_df = sorted filtered_rules; return it.
SortRules ==
    /\ pc = "filtered"
    /\ rules_df' = Some(sort_values(filtered_rules, tie_order))
    /\ pc' = "done"
    /\ UNCHANGED <<config, tie_order, one_hot_df, itemsets_df,
                   raw_rules, filtered_rules>>
    /\ UNCHANGED rec_vars

Run ==
    \/ FindFrequentItemsets
    \/ GenerateRules
    \/ AddZhangsMetric
    \/ FilterRules
    \/ SortRules

Next ==
    \/ \E basket \in RowTypes : AddTransaction(basket)
    \/ AnalyzerInit
    \/ Run

Spec == Init /\ [][Next]_vars

\* The pipeline on the matrix of a larger basket file: up to 76 rows over
\* the first two columns.
BulkCounts == {0, 1, 2, 3, 4, 19}

BulkMatrices ==
    {df \in [RowTypes -> BulkCounts] :
        \A R \in RowTypes : R \notin SUBSET {1, 2} => df[R] = 0}

InitBulk ==
    /\ config \in Configs
    /\ tie_order \in TieOrders
    /\ one_hot_df \in BulkMatrices
    /\ itemsets_df = None
    /\ raw_rules = <<>>
    /\ filtered_rules = <<>>
    /\ rules_df = None
    /\ pc = "build"
    /\ recommender = None
    /\ call = None
    /\ result = None
    /\ threads = [t \in Threads |-> IdleThread]

\* run() called again on an Analyzer whose run() has returned: step 1, with
\* new locals, over the fields the first call left.
RunAgain ==
    /\ pc = "done"
    /\ itemsets_df' = Some(apriori(one_hot_df, APRIORI_MIN_SUPPORT))
    /\ raw_rules' = <<>>
    /\ filtered_rules' = <<>>
    /\ pc' = "mined"
    /\ UNCHANGED <<config, tie_order, one_hot_df, rules_df>>
    /\ UNCHANGED rec_vars

\* A second Analyzer(one_hot_df) on the same matrix, after the first one's
\* run() has returned.
AnalyzerAgain ==
    /\ pc = "done"
    /\ itemsets_df' = None
    /\ rules_df' = None
    /\ raw_rules' = <<>>
    /\ filtered_rules' = <<>>
    /\ pc' = "new"
    /\ UNCHANGED <<config, tie_order, one_hot_df>>
    /\ UNCHANGED rec_vars

\* Recommender(rules_df) on the Rule Set run() returned.
PublishRuleSet ==
    /\ pc = "done"
    /\ recommender = None
    /\ recommender' = Some(rules_df[1])
    /\ UNCHANGED <<config, tie_order, one_hot_df, itemsets_df, raw_rules,
                   filtered_rules, rules_df, pc, call, result, threads>>

NextBulk ==
    \/ AnalyzerInit
    \/ Run
    \/ RunAgain
    \/ AnalyzerAgain
    \/ PublishRuleSet

SpecBulk == InitBulk /\ [][NextBulk]_vars

-----------------------------------------------------------------------------
(* Recommender (src/src/recommender.py).                                   *)
(*                                                                         *)
(* A DataFrame a query returns is a record of its columns and its rows;    *)
(* pd.DataFrame() has neither.  Item labels are numbered in label order    *)
(* (1 = A, 2 = B, 3 = C, 4 = D), the order in which a frozenset of labels  *)
(* is taken to be iterated.                                                *)

RecItems == {1, 2, 3, 4}

RECOMMENDER_TOP_N == 5
RECOMMENDER_MIN_CONFIDENCE == Rat(6, 10)

RAdd(x, y) == Rat(x[1] * y[2] + y[1] * x[2], x[2] * y[2])

\* round(x, 4): the nearest multiple of 1/10000, a tie going to the even
\* one.  The scaling is done in two steps of 100 to stay within 32 bits.
RoundStep == 100
RoundScale == RoundStep * RoundStep

round4(x) ==
    LET d  == x[2]
        q0 == x[1] \div d
        r0 == x[1] % d
        q1 == (r0 * RoundStep) \div d
        r1 == (r0 * RoundStep) % d
        q2 == (r1 * RoundStep) \div d
        r2 == (r1 * RoundStep) % d
        q  == q0 * RoundScale + q1 * RoundStep + q2
        up == 2 * r2 > d \/ (2 * r2 = d /\ q % 2 = 1)
    IN  Rat(IF up THEN q + 1 ELSE q, RoundScale)

EmptyDataFrame == [columns |-> <<>>, rows |-> <<>>]
DataFrame(columns, rows) == [columns |-> columns, rows |-> rows]

RecommendColumns == <<"item", "confidence", "lift", "zhangs_metric", "rule">>
PopularColumns == <<"item", "avg_confidence", "avg_lift", "rule_count">>

\* df.head(n): the first n rows; all but the last -n rows when n < 0.
head(df, n) ==
    IF n >= 0 THEN SubSeq(df, 1, IF n < Len(df) THEN n ELSE Len(df))
    ELSE SubSeq(df, 1, Len(df) + n)

\* Mutant of drop_duplicates: nothing dropped.
drop_duplicates_none(df) == df

\* df.drop_duplicates(subset=["item"]): the first row of every item.
drop_duplicates(df) ==
    LET keep == {j \in 1..Len(df) :
                    \A i \in 1..(j - 1) : df[i].item # df[j].item}
        IsKept(j) == j \in keep
        kept == SelectSeq([j \in 1..Len(df) |-> j], IsKept)
    IN  [k \in 1..Len(kept) |-> df[kept[k]]]

\* df.sort_values("confidence", ascending=False), default kind="quicksort".
RowsBeforeConfidence(acc, r, tie) ==
    Cardinality({j \in 1..Len(acc) :
        IF tie = "stable"
        THEN RGeq(acc[j].confidence, r.confidence)
        ELSE RGt(acc[j].confidence, r.confidence)})

RECURSIVE SortFromConfidence(_, _, _, _)
SortFromConfidence(df, i, acc, tie) ==
    IF i > Len(df) THEN acc
    ELSE LET n == RowsBeforeConfidence(acc, df[i], tie)
         IN  SortFromConfidence(df, i + 1,
                 SubSeq(acc, 1, n) \o <<df[i]>> \o SubSeq(acc, n + 1, Len(acc)),
                 tie)

\* Mutant of the ranking: the recommendations in the order they were found.
sort_values_confidence_unsorted(df, tie) == df

sort_values_confidence(df, tie) == SortFromConfidence(df, 1, <<>>, tie)

\* Mutant of the match: the antecedent only has to meet the basket.
IsMatching_any_antecedent(rule, basket_set, min_confidence) ==
    /\ rule.antecedents \cap basket_set # {}
    /\ RGeq(rule.confidence, min_confidence)

\* A rule matches when its antecedent is within the basket and its
\* confidence is at least min_confidence.
IsMatching(rule, basket_set, min_confidence) ==
    /\ rule.antecedents \subseteq basket_set
    /\ RGeq(rule.confidence, min_confidence)

matching_rules(rules, basket_set, min_confidence) ==
    LET Mask(rule) == IsMatching(rule, basket_set, min_confidence)
    IN  SelectSeq(rules, Mask)

\* The dict appended for one consequent item of a matching rule.
Recommendation(rule, item) ==
    [item          |-> item,
     confidence    |-> round4(rule.confidence),
     lift          |-> round4(rule.lift),
     zhangs_metric |-> round4(rule.zhangs_metric),
     rule          |-> [antecedents |-> rule.antecedents,
                        consequents |-> rule.consequents]]

\* Mutant of the inner loop: items of the basket are not skipped.
RuleRecommendations_keep_basket(rule, basket_set) ==
    LET items == SortedSeq(rule.consequents)
    IN  [k \in 1..Len(items) |-> Recommendation(rule, items[k])]

\* Mutant of the inner loop: a rule with a consequent item in the basket
\* recommends nothing.
RuleRecommendations_skip_owned_rule(rule, basket_set) ==
    LET items == IF rule.consequents \cap basket_set # {} THEN <<>>
                 ELSE SortedSeq(rule.consequents)
    IN  [k \in 1..Len(items) |-> Recommendation(rule, items[k])]

\* The inner loop: one dict per consequent item that is not in the basket.
RuleRecommendations(rule, basket_set) ==
    LET items == SortedSeq(rule.consequents \ basket_set)
    IN  [k \in 1..Len(items) |-> Recommendation(rule, items[k])]

RECURSIVE recommendations(_, _, _)
recommendations(matching, i, basket_set) ==
    IF i > Len(matching) THEN <<>>
    ELSE RuleRecommendations(matching[i], basket_set)
             \o recommendations(matching, i + 1, basket_set)

\* Mutant of recommend: without the test on an empty list of
\* recommendations; the frame then has the columns and no rows.
recommend_unguarded(rules, basket, top_n, min_confidence, tie) ==
    IF basket = {} THEN EmptyDataFrame
    ELSE IF Len(rules) = 0 THEN EmptyDataFrame
    ELSE LET matching == matching_rules(rules, basket, min_confidence)
             recs == recommendations(matching, 1, basket)
         IN  IF Len(matching) = 0 THEN EmptyDataFrame
             ELSE DataFrame(RecommendColumns,
                      head(drop_duplicates(sort_values_confidence(recs, tie)),
                           top_n))

\* Recommender.recommend(basket, top_n, min_confidence)
recommend(rules, basket, top_n, min_confidence, tie) ==
    IF basket = {} THEN EmptyDataFrame
    ELSE IF Len(rules) = 0 THEN EmptyDataFrame
    ELSE LET matching == matching_rules(rules, basket, min_confidence)
             recs == recommendations(matching, 1, basket)
         IN  IF Len(matching) = 0 THEN EmptyDataFrame
             ELSE IF Len(recs) = 0 THEN EmptyDataFrame
             ELSE DataFrame(RecommendColumns,
                      head(drop_duplicates(sort_values_confidence(recs, tie)),
                           top_n))

\* Recommender.recommend_for_customer(customer_id, baskets_df, top_n): the
\* recommendations for the last row of baskets_df with that customer_id.
\* basket_items goes to recommend() as it is.
recommend_for_customer(rules, customer_id, baskets_df, top_n, tie) ==
    LET Mine(row) == row.customer_id = customer_id
        customer_baskets == SelectSeq(baskets_df, Mine)
    IN  IF Len(customer_baskets) = 0 THEN EmptyDataFrame
        ELSE recommend(rules,
                       customer_baskets[Len(customer_baskets)].basket_items,
                       top_n, RECOMMENDER_MIN_CONFIDENCE, tie)

\* The rows of cons_df for one item: the rules whose consequent has it.
RulesRecommending(rules, item) ==
    LET Has(rule) == item \in rule.consequents
    IN  SelectSeq(rules, Has)

RECURSIVE SumConfidence(_, _)
SumConfidence(rules, i) ==
    IF i > Len(rules) THEN Zero
    ELSE RAdd(rules[i].confidence, SumConfidence(rules, i + 1))

RECURSIVE SumLift(_, _)
SumLift(rules, i) ==
    IF i > Len(rules) THEN Zero
    ELSE RAdd(rules[i].lift, SumLift(rules, i + 1))

\* Mutant of the aggregation: rule_count counts every rule.
PopularRow_count_all(rules, item) ==
    LET group == RulesRecommending(rules, item)
    IN  [item           |-> item,
         avg_confidence |-> RDiv(SumConfidence(group, 1), Rat(Len(group), 1)),
         avg_lift       |-> RDiv(SumLift(group, 1), Rat(Len(group), 1)),
         rule_count     |-> Len(rules)]

\* groupby("item").agg(mean, mean, count) for one item.
PopularRow(rules, item) ==
    LET group == RulesRecommending(rules, item)
    IN  [item           |-> item,
         avg_confidence |-> RDiv(SumConfidence(group, 1), Rat(Len(group), 1)),
         avg_lift       |-> RDiv(SumLift(group, 1), Rat(Len(group), 1)),
         rule_count     |-> Len(group)]

\* The groups, in the order of their keys.
groupby_item(rules) ==
    LET items == SortedSeq(UNION {rules[j].consequents : j \in 1..Len(rules)})
    IN  [k \in 1..Len(items) |-> PopularRow(rules, items[k])]

\* df.sort_values("rule_count", ascending=False), default kind="quicksort".
RowsBeforeCount(acc, r, tie) ==
    Cardinality({j \in 1..Len(acc) :
        IF tie = "stable"
        THEN acc[j].rule_count >= r.rule_count
        ELSE acc[j].rule_count > r.rule_count})

RECURSIVE SortFromCount(_, _, _, _)
SortFromCount(df, i, acc, tie) ==
    IF i > Len(df) THEN acc
    ELSE LET n == RowsBeforeCount(acc, df[i], tie)
         IN  SortFromCount(df, i + 1,
                 SubSeq(acc, 1, n) \o <<df[i]>> \o SubSeq(acc, n + 1, Len(acc)),
                 tie)

sort_values_rule_count(df, tie) == SortFromCount(df, 1, <<>>, tie)

\* popular["avg_confidence"].round(4), popular["avg_lift"].round(4)
RoundPopular(df) ==
    [k \in 1..Len(df) |->
        [df[k] EXCEPT !.avg_confidence = round4(@), !.avg_lift = round4(@)]]

\* Recommender.get_popular_recommendations(top_n)
get_popular_recommendations(rules, top_n, tie) ==
    IF Len(rules) = 0 THEN EmptyDataFrame
    ELSE LET popular == head(sort_values_rule_count(groupby_item(rules), tie),
                             top_n)
         IN  IF Len(groupby_item(rules)) = 0 THEN EmptyDataFrame
             ELSE DataFrame(PopularColumns, RoundPopular(popular))

\* The rule sets the Recommender is built on: hand-made DataFrames, as in
\* tests/test_recommender.py, of up to MaxRules different rules.
MaxRules == 3

Rule(A, B, confidence, lift, zhang) ==
    [antecedents |-> A, consequents |-> B, confidence |-> confidence,
     lift |-> lift, zhangs_metric |-> zhang]

RulePool ==
    { Rule({1},    {3},    Rat(4, 5),         Rat(3, 2), Rat(1, 2)),
      Rule({2},    {3},    Rat(3, 5),         Rat(6, 5), Rat(1, 4)),
      Rule({1, 2}, {4},    Rat(9, 10),        Rat(2, 1), Rat(3, 4)),
      Rule({1},    {2, 3}, Rat(2, 3),         Rat(4, 3), Rat(1, 3)),
      Rule({2},    {4},    Rat(28001, 40000), Rat(5, 4), Rat(2, 5)),
      Rule({1},    {4},    Rat(4, 5),         Rat(8, 5), Rat(3, 5)),
      Rule({3},    {1},    Rat(7, 10),        Rat(7, 5), Rat(1, 5)),
      Rule({2},    {3, 4}, Rat(4, 5),         Rat(7, 4), Rat(11, 20)) }

RuleSets ==
    UNION {{rs \in [1..n -> RulePool] :
               \A i, j \in 1..n : i # j => rs[i] # rs[j]} : n \in 0..MaxRules}

\* The arguments of the queries.
Baskets == SUBSET {1, 2, 3}
TopNs == {1, 2, RECOMMENDER_TOP_N}
MinConfidences == {Rat(1, 2), RECOMMENDER_MIN_CONFIDENCE, Rat(3, 4)}

\* The arguments of recommend_for_customer.  basket_items from the loader
\* holds item ids (int); the rules of the pipeline hold item names (str),
\* the renamed columns of the matrix.  An id and a name are never equal in
\* Python: with the names numbered 1..4, the ids are numbered from 11, and
\* item_name_map gives the name of each id.
ItemIds == {11, 12, 13}
item_name_map == [id \in ItemIds |-> id - 10]
CustomerIds == {1001, 1002}

Basket(customer_id, basket_items) ==
    [customer_id |-> customer_id, basket_items |-> basket_items]

\* baskets_df as DataLoader.load_baskets() returns it.
LoaderFrames ==
    { <<>>,
      <<Basket(1001, {11})>>,
      <<Basket(1001, {11}), Basket(1002, {12}), Basket(1001, {11, 12})>>,
      <<Basket(1001, {11, 12}), Basket(1001, {12})>> }

\* A hand-made baskets_df whose basket_items holds names.
NamedFrames == { <<Basket(1001, {1}), Basket(1001, {1, 2})>> }

BasketFrames == LoaderFrames \cup NamedFrames

InitRec ==
    /\ config = DefaultConfig
    /\ tie_order \in TieOrders
    /\ one_hot_df = EmptyMatrix
    /\ itemsets_df = None
    /\ raw_rules = <<>>
    /\ filtered_rules = <<>>
    /\ rules_df \in {Some(rs) : rs \in RuleSets}
    /\ pc = "fixture"
    /\ recommender = None
    /\ call = None
    /\ result = None
    /\ threads = [t \in Threads |-> IdleThread]

\* Recommender.__init__(rules_df): self.rules_df = rules_df.copy()
RecommenderInit ==
    /\ rules_df # None
    /\ recommender = None
    /\ recommender' = Some(rules_df[1])
    /\ UNCHANGED <<config, tie_order, one_hot_df, itemsets_df, raw_rules,
                   filtered_rules, rules_df, pc, call, result, threads>>

\* Mutant of recommend(): the matching rules are filtered in place,
\* self.rules_df = self.rules_df[mask].
Recommend_in_place(basket, top_n, min_confidence) ==
    /\ recommender # None
    /\ call = None
    /\ call' = Some([method |-> "recommend", basket |-> basket,
                     top_n |-> top_n, min_confidence |-> min_confidence])
    /\ result' = Some(recommend(recommender[1], basket, top_n,
                                min_confidence, tie_order))
    /\ recommender' = Some(matching_rules(recommender[1], basket,
                                          min_confidence))
    /\ UNCHANGED <<config, tie_order, one_hot_df, itemsets_df, raw_rules,
                   filtered_rules, rules_df, pc, threads>>

\* recommender.recommend(basket, top_n, min_confidence)
Recommend(basket, top_n, min_confidence) ==
    /\ recommender # None
    /\ call = None
    /\ call' = Some([method |-> "recommend", basket |-> basket,
                     top_n |-> top_n, min_confidence |-> min_confidence])
    /\ result' = Some(recommend(recommender[1], basket, top_n,
                                min_confidence, tie_order))
    /\ UNCHANGED <<config, tie_order, one_hot_df, itemsets_df, raw_rules,
                   filtered_rules, rules_df, pc, recommender, threads>>

\* recommender.get_popular_recommendations(top_n)
GetPopularRecommendations(top_n) ==
    /\ recommender # None
    /\ call = None
    /\ call' = Some([method |-> "get_popular_recommendations",
                     top_n |-> top_n])
    /\ result' = Some(get_popular_recommendations(recommender[1], top_n,
                                                  tie_order))
    /\ UNCHANGED <<config, tie_order, one_hot_df, itemsets_df, raw_rules,
                   filtered_rules, rules_df, pc, recommender, threads>>

\* recommender.recommend_for_customer(customer_id, baskets_df, top_n)
RecommendForCustomer(customer_id, baskets_df, top_n) ==
    /\ recommender # None
    /\ call = None
    /\ call' = Some([method |-> "recommend_for_customer",
                     customer_id |-> customer_id, baskets_df |-> baskets_df,
                     top_n |-> top_n])
    /\ result' = Some(recommend_for_customer(recommender[1], customer_id,
                                             baskets_df, top_n, tie_order))
    /\ UNCHANGED <<config, tie_order, one_hot_df, itemsets_df, raw_rules,
                   filtered_rules, rules_df, pc, recommender, threads>>

\* The caller has taken the returned DataFrame; the next query can start.
Return ==
    /\ call # None
    /\ call' = None
    /\ result' = None
    /\ UNCHANGED <<config, tie_order, one_hot_df, itemsets_df, raw_rules,
                   filtered_rules, rules_df, pc, recommender, threads>>

NextRec ==
    \/ RecommenderInit
    \/ \E basket \in Baskets, top_n \in TopNs,
          min_confidence \in MinConfidences :
              Recommend(basket, top_n, min_confidence)
    \/ \E top_n \in TopNs : GetPopularRecommendations(top_n)
    \/ \E customer_id \in CustomerIds, baskets_df \in BasketFrames,
          top_n \in TopNs :
              RecommendForCustomer(customer_id, baskets_df, top_n)
    \/ Return

SpecRec == InitRec /\ [][NextRec]_vars

-----------------------------------------------------------------------------
(* Analyzer.get_summary.                                                   *)

EmptyDict == [key \in {} |-> None]

RECURSIVE SumField(_, _, _)
SumField(rules, i, field) ==
    IF i > Len(rules) THEN Zero
    ELSE RAdd(rules[i][field], SumField(rules, i + 1, field))

\* rules[field].mean()
MeanField(rules, field) == RDiv(SumField(rules, 1, field), Rat(Len(rules), 1))

\* Mutant of get_summary: only a missing rules_df gives the empty dict.
get_summary_none_only(rules) ==
    IF rules = None THEN EmptyDict
    ELSE [total_rules |-> Len(rules[1])]

\* get_summary(), from self.rules_df: None or Some(rules).
get_summary(rules) ==
    IF rules = None \/ Len(rules[1]) = 0 THEN EmptyDict
    ELSE LET top_rule == rules[1][1]
         IN  [total_rules          |-> Len(rules[1]),
              avg_confidence       |-> round4(MeanField(rules[1], "confidence")),
              avg_lift             |-> round4(MeanField(rules[1], "lift")),
              avg_zhang            |-> round4(MeanField(rules[1], "zhangs_metric")),
              avg_support          |-> round4(MeanField(rules[1], "support")),
              top_rule_antecedents |-> SortedSeq(top_rule.antecedents),
              top_rule_consequents |-> SortedSeq(top_rule.consequents),
              top_rule_confidence  |-> round4(top_rule.confidence),
              top_rule_lift        |-> round4(top_rule.lift),
              top_rule_zhang       |-> round4(top_rule.zhangs_metric)]

-----------------------------------------------------------------------------
(* Queries served concurrently by one Recommender, without a lock.  A      *)
(* query is cut where it reads self.rules_df: the test of its length, the  *)
(* selection of the rows it works on, and the rest, which works on the     *)
(* query's own copy.  The steps of the threads interleave freely.          *)

\* The rule sets served: none, Scenario C, and one with consequents of two
\* items.
ConcRuleSets ==
    { <<>>,
      << Rule({1},    {3}, Rat(4, 5),  Rat(3, 2), Rat(1, 2)),
         Rule({2},    {3}, Rat(3, 5),  Rat(6, 5), Rat(1, 4)),
         Rule({1, 2}, {4}, Rat(9, 10), Rat(2, 1), Rat(3, 4)) >>,
      << Rule({1}, {2, 3}, Rat(2, 3), Rat(4, 3), Rat(1, 3)),
         Rule({2}, {3, 4}, Rat(4, 5), Rat(7, 4), Rat(11, 20)) >> }

ConcQueries ==
    {[method |-> "recommend", basket |-> basket, top_n |-> top_n,
      min_confidence |-> RECOMMENDER_MIN_CONFIDENCE] :
         basket \in {{}, {1}, {1, 2}}, top_n \in {1, RECOMMENDER_TOP_N}}
    \cup {[method |-> "get_popular_recommendations", top_n |-> top_n] :
             top_n \in {1, RECOMMENDER_TOP_N}}

InitConc ==
    /\ config = DefaultConfig
    /\ tie_order \in TieOrders
    /\ one_hot_df = EmptyMatrix
    /\ itemsets_df = None
    /\ raw_rules = <<>>
    /\ filtered_rules = <<>>
    /\ rules_df \in {Some(rs) : rs \in ConcRuleSets}
    /\ pc = "fixture"
    /\ recommender = None
    /\ call = None
    /\ result = None
    /\ threads = [t \in Threads |-> IdleThread]

\* Thread t enters recommend() or get_popular_recommendations().
BeginQuery(t, query) ==
    /\ recommender # None
    /\ threads[t].pc = "idle"
    /\ threads' = [threads EXCEPT ![t] = [IdleThread EXCEPT !.pc = "called",
                                                          !.query = Some(query)]]
    /\ UNCHANGED <<config, tie_order, one_hot_df, itemsets_df, raw_rules,
                   filtered_rules, rules_df, pc, recommender, call, result>>

\* `if not basket` and `if len(self.rules_df) == 0`: return pd.DataFrame().
CheckRules(t) ==
    /\ threads[t].pc = "called"
    /\ LET query == threads[t].query[1]
           empty == \/ query.method = "recommend" /\ query.basket = {}
                    \/ Len(recommender[1]) = 0
       IN  threads' = [threads EXCEPT ![t] =
               IF empty
               THEN [@ EXCEPT !.pc = "done", !.result = Some(EmptyDataFrame)]
               ELSE [@ EXCEPT !.pc = "checked"]]
    /\ UNCHANGED <<config, tie_order, one_hot_df, itemsets_df, raw_rules,
                   filtered_rules, rules_df, pc, recommender, call, result>>

\* Mutant of the selection: recommend() keeps the matching rules in
\* self.rules_df.
SelectRules_in_place(t) ==
    /\ threads[t].pc = "checked"
    /\ LET query == threads[t].query[1]
           rows == IF query.method = "recommend"
                   THEN matching_rules(recommender[1], query.basket,
                                       query.min_confidence)
                   ELSE recommender[1]
       IN  /\ threads' = [threads EXCEPT ![t] =
                   [@ EXCEPT !.pc = "selected", !.rules = rows]]
           /\ recommender' = Some(rows)
    /\ UNCHANGED <<config, tie_order, one_hot_df, itemsets_df, raw_rules,
                   filtered_rules, rules_df, pc, call, result>>

\* recommend(): matching_rules = self.rules_df[mask].copy();
\* get_popular_recommendations(): the loop over self.rules_df.iterrows().
SelectRules(t) ==
    /\ threads[t].pc = "checked"
    /\ LET query == threads[t].query[1]
           rows == IF query.method = "recommend"
                   THEN matching_rules(recommender[1], query.basket,
                                       query.min_confidence)
                   ELSE recommender[1]
       IN  threads' = [threads EXCEPT ![t] =
               [@ EXCEPT !.pc = "selected", !.rules = rows]]
    /\ UNCHANGED <<config, tie_order, one_hot_df, itemsets_df, raw_rules,
                   filtered_rules, rules_df, pc, recommender, call, result>>

\* The rest of recommend(), from its matching rules.
rank_recommendations(matching, basket, top_n, tie) ==
    LET recs == recommendations(matching, 1, basket)
    IN  IF Len(matching) = 0 THEN EmptyDataFrame
        ELSE IF Len(recs) = 0 THEN EmptyDataFrame
        ELSE DataFrame(RecommendColumns,
                 head(drop_duplicates(sort_values_confidence(recs, tie)),
                      top_n))

\* The rest of get_popular_recommendations(), from the rows it read.
rank_popular(rows, top_n, tie) ==
    IF Len(groupby_item(rows)) = 0 THEN EmptyDataFrame
    ELSE DataFrame(PopularColumns,
             RoundPopular(head(sort_values_rule_count(groupby_item(rows), tie),
                               top_n)))

\* The query of thread t returns.
FinishQuery(t) ==
    /\ threads[t].pc = "selected"
    /\ LET query == threads[t].query[1]
           df == IF query.method = "recommend"
                 THEN rank_recommendations(threads[t].rules, query.basket,
                                           query.top_n, tie_order)
                 ELSE rank_popular(threads[t].rules, query.top_n, tie_order)
       IN  threads' = [threads EXCEPT ![t] =
               [@ EXCEPT !.pc = "done", !.result = Some(df)]]
    /\ UNCHANGED <<config, tie_order, one_hot_df, itemsets_df, raw_rules,
                   filtered_rules, rules_df, pc, recommender, call, result>>

\* The caller of thread t has taken the result.
CollectResult(t) ==
    /\ threads[t].pc = "done"
    /\ threads' = [threads EXCEPT ![t] = IdleThread]
    /\ UNCHANGED <<config, tie_order, one_hot_df, itemsets_df, raw_rules,
                   filtered_rules, rules_df, pc, recommender, call, result>>

NextConc ==
    \/ RecommenderInit
    \/ \E t \in Threads, query \in ConcQueries : BeginQuery(t, query)
    \/ \E t \in Threads : CheckRules(t)
    \/ \E t \in Threads : SelectRules(t)
    \/ \E t \in Threads : FinishQuery(t)
    \/ \E t \in Threads : CollectResult(t)

SpecConc == InitConc /\ [][NextConc]_vars

-----------------------------------------------------------------------------
(* Preprocessor.build_one_hot_matrix (src/src/preprocessor.py): mlxtend's  *)
(* TransactionEncoder over the lists of item ids, then the columns renamed *)
(* from ids to names.                                                      *)

\* TransactionEncoder.fit: columns_ = sorted(unique items).
fit(transactions) ==
    SortedSeq(UNION {Range(transactions[t]) : t \in 1..Len(transactions)})

\* TransactionEncoder.transform: one row per transaction, True in the
\* columns of its items.
transform(transactions, columns_) ==
    [t \in 1..Len(transactions) |->
        [k \in 1..Len(columns_) |-> columns_[k] \in Range(transactions[t])]]

\* Mutant of rename: the ids are kept.
rename_nothing(columns_, name_map) == columns_

\* DataFrame.rename(columns=name_map): a column whose label is a key of the
\* dict takes its value, any other keeps its label.
rename(columns_, name_map) ==
    [k \in 1..Len(columns_) |->
        IF columns_[k] \in DOMAIN name_map THEN name_map[columns_[k]]
        ELSE columns_[k]]

build_one_hot_matrix(transactions, name_map) ==
    LET columns_ == fit(transactions)
    IN  DataFrame(rename(columns_, name_map), transform(transactions, columns_))

\* The inputs: up to MaxBaskets baskets of 1 to MaxBasketLen item ids, an
\* id may come twice; a name map with every id, and one without id 13.
MaxBaskets == 2
MaxBasketLen == 2

BasketLists == UNION {[1..n -> ItemIds] : n \in 1..MaxBasketLen}
TransactionLists == UNION {[1..n -> BasketLists] : n \in 0..MaxBaskets}
NameMaps == {item_name_map, [id \in {11, 12} |-> id - 10]}

InitPre ==
    /\ config = DefaultConfig
    /\ tie_order = "stable"
    /\ one_hot_df = EmptyMatrix
    /\ itemsets_df = None
    /\ raw_rules = <<>>
    /\ filtered_rules = <<>>
    /\ rules_df = None
    /\ pc = "load"
    /\ recommender = None
    /\ call = None
    /\ result = None
    /\ threads = [t \in Threads |-> IdleThread]

\* Preprocessor(baskets_df, categories_df).build_one_hot_matrix()
BuildOneHotMatrix(transactions, name_map) ==
    /\ pc = "load"
    /\ call = None
    /\ call' = Some([method |-> "build_one_hot_matrix",
                     transactions |-> transactions, name_map |-> name_map])
    /\ result' = Some(build_one_hot_matrix(transactions, name_map))
    /\ UNCHANGED <<config, tie_order, one_hot_df, itemsets_df, raw_rules,
                   filtered_rules, rules_df, pc, recommender, threads>>

NextPre ==
    \/ \E transactions \in TransactionLists, name_map \in NameMaps :
           BuildOneHotMatrix(transactions, name_map)
    \/ Return

SpecPre == InitPre /\ [][NextPre]_vars

-----------------------------------------------------------------------------
(* Properties of the pipeline.                                             *)

\* The Rule Set run() returned.
Returned == pc = "done"
RuleSet == rules_df[1]

\* The three conditions of the filter, on the thresholds in force.
MeetsConfidence(r) == RGeq(r.confidence, config.min_confidence)
ExceedsLift(r) == RGt(r.lift, config.min_lift)
ExceedsZhang(r) == RGt(r.zhangs_metric, config.min_zhang)

\* C1. Filter soundness: every rule of the Rule Set returned by run() has
\* confidence >= min_confidence, lift > min_lift and Zhang's metric >
\* min_association_strength.
FilterSoundness ==
    Returned =>
        \A i \in 1..Len(RuleSet) :
            /\ MeetsConfidence(RuleSet[i])
            /\ ExceedsLift(RuleSet[i])
            /\ ExceedsZhang(RuleSet[i])

\* run() returned a non-empty Rule Set after the filter removed rules for
\* each of the three reasons.
FilterSoundnessWitness ==
    /\ Returned
    /\ Len(RuleSet) >= 1
    /\ \E i \in 1..Len(raw_rules) : ~MeetsConfidence(raw_rules[i])
    /\ \E i \in 1..Len(raw_rules) : ~ExceedsLift(raw_rules[i])
    /\ \E i \in 1..Len(raw_rules) : ~ExceedsZhang(raw_rules[i])

\* C2. Filter exactness: the filter's output is exactly the generated rules
\* that meet all three conditions, in particular a rule with confidence =
\* min_confidence that passes the other two is kept, and a rule with lift =
\* min_lift or Zhang's metric = min_association_strength is removed.
Filtered == pc \in {"filtered", "done"}

FilterExactness ==
    Filtered =>
        /\ Range(filtered_rules) \subseteq Range(raw_rules)
        /\ Len(filtered_rules) = Cardinality(Range(filtered_rules))
        /\ \A r \in Range(raw_rules) :
            /\ r \in Range(filtered_rules) <=>
                   (MeetsConfidence(r) /\ ExceedsLift(r) /\ ExceedsZhang(r))
            /\ (r.confidence = config.min_confidence
                    /\ ExceedsLift(r) /\ ExceedsZhang(r))
                   => r \in Range(filtered_rules)
            /\ r.lift = config.min_lift => r \notin Range(filtered_rules)
            /\ r.zhangs_metric = config.min_zhang
                   => r \notin Range(filtered_rules)

\* The filter kept a rule whose confidence is exactly min_confidence,
\* removed a rule only because its lift is exactly min_lift, and removed a
\* rule of sufficient confidence whose Zhang's metric is exactly
\* min_association_strength.
FilterExactnessWitness ==
    /\ Filtered
    /\ \E r \in Range(filtered_rules) : r.confidence = config.min_confidence
    /\ \E r \in Range(raw_rules) :
           /\ r.lift = config.min_lift
           /\ MeetsConfidence(r) /\ ExceedsZhang(r)
           /\ r \notin Range(filtered_rules)
    /\ \E r \in Range(raw_rules) :
           /\ r.zhangs_metric = config.min_zhang
           /\ MeetsConfidence(r)
           /\ r \notin Range(filtered_rules)

\* C3. Sort order: the Rule Set returned by run() is non-increasing in
\* Zhang's metric from first row to last.
SortOrder ==
    Returned =>
        \A i, j \in 1..Len(RuleSet) :
            i < j => RGeq(RuleSet[i].zhangs_metric, RuleSet[j].zhangs_metric)

\* run() returned rules of different strengths that the filter had left
\* in another order.
SortOrderWitness ==
    /\ Returned
    /\ Len(RuleSet) >= 3
    /\ RGt(RuleSet[1].zhangs_metric, RuleSet[Len(RuleSet)].zhangs_metric)
    /\ \E i, j \in 1..Len(filtered_rules) :
           /\ i < j
           /\ RLt(filtered_rules[i].zhangs_metric,
                  filtered_rules[j].zhangs_metric)

\* C4. Stable tie-break: two rules of the final Rule Set with equal Zhang's
\* metric are in the same relative order as in the filter's output.
PositionIn(df, r) == CHOOSE k \in 1..Len(df) : df[k] = r

StableTieBreak ==
    Returned =>
        \A i, j \in 1..Len(RuleSet) :
            (i < j /\ RuleSet[i].zhangs_metric = RuleSet[j].zhangs_metric)
                => PositionIn(filtered_rules, RuleSet[i])
                       < PositionIn(filtered_rules, RuleSet[j])

\* C5. Zhang's metric formula: with P(A) = antecedent support, P(B) =
\* consequent support and P(AB) = support, the metric of every rule is
\* (P(AB) - P(A)P(B)) / max(P(AB)(1 - P(A)), P(A)(P(B) - P(AB))) when that
\* denominator is not 0, and 0 when it is; P(A) = P(B) = 0.5, P(AB) = 0.4
\* gives 0.75.
Scored == pc \in {"scored", "filtered", "done"}

ZhangNumerator(r) ==
    RSub(r.support, RMul(r.antecedent_support, r.consequent_support))
ZhangDenominator(r) ==
    LET x == RMul(r.support, RSub(One, r.antecedent_support))
        y == RMul(r.antecedent_support,
                  RSub(r.consequent_support, r.support))
    IN  IF RGeq(x, y) THEN x ELSE y
IsScenarioB(r) ==
    /\ r.antecedent_support = Rat(5, 10)
    /\ r.consequent_support = Rat(5, 10)
    /\ r.support = Rat(4, 10)

ZhangFormula ==
    Scored =>
        \A r \in Range(raw_rules) :
            /\ ZhangDenominator(r) = Zero => r.zhangs_metric = Zero
            /\ ZhangDenominator(r) # Zero =>
                   RMul(r.zhangs_metric, ZhangDenominator(r))
                       = ZhangNumerator(r)
            /\ IsScenarioB(r) => r.zhangs_metric = Rat(75, 100)

\* The metric was computed for a rule with P(A) = P(B) = 0.5, P(AB) = 0.4.
ZhangFormulaWitness ==
    /\ Scored
    /\ \E r \in Range(raw_rules) :
           IsScenarioB(r) /\ r.zhangs_metric = Rat(75, 100)

\* C6. Metric bounds: every generated rule has confidence in [0, 1] and
\* Zhang's metric in [-1, 1].
MinusOne == RSub(Zero, One)

MetricBounds ==
    Scored =>
        \A r \in Range(raw_rules) :
            /\ RLeq(Zero, r.confidence) /\ RLeq(r.confidence, One)
            /\ RLeq(MinusOne, r.zhangs_metric)
            /\ RLeq(r.zhangs_metric, One)

\* The metrics were computed for a rule of negative strength, a rule of
\* strength 1 and a rule of confidence 1.
MetricBoundsWitness ==
    /\ Scored
    /\ \E r \in Range(raw_rules) : RLt(r.zhangs_metric, Zero)
    /\ \E r \in Range(raw_rules) :
           r.zhangs_metric = One /\ RLt(r.confidence, One)
    /\ \E r \in Range(raw_rules) :
           r.confidence = One /\ RLt(r.zhangs_metric, One)

\* C7. Miner exactness: the miner returns exactly the non-empty item subsets
\* whose support, the fraction of rows containing all their items, is >=
\* min_support, each once and paired with that support.
Mined == itemsets_df # None
Itemsets == itemsets_df[1]
TransactionsWith(I) == SumOver(one_hot_df, {R \in RowTypes : I \subseteq R})
Transactions == SumOver(one_hot_df, RowTypes)
IsFrequent(I) ==
    /\ Transactions > 0
    /\ TransactionsWith(I) * config.min_support[2]
           >= config.min_support[1] * Transactions

MinerExactness ==
    Mined =>
        /\ \A I \in (SUBSET Items) \ {{}} :
               (\E j \in 1..Len(Itemsets) : Itemsets[j].itemsets = I)
                   <=> IsFrequent(I)
        /\ \A j \in 1..Len(Itemsets) :
               /\ Itemsets[j].itemsets # {}
               /\ Itemsets[j].support[1] * Transactions
                      = TransactionsWith(Itemsets[j].itemsets)
                            * Itemsets[j].support[2]
        /\ \A i, j \in 1..Len(Itemsets) :
               Itemsets[i].itemsets = Itemsets[j].itemsets => i = j

\* The miner kept a pair of items whose support is exactly min_support and
\* left out an itemset that occurs in some row.
MinerExactnessWitness ==
    /\ Mined
    /\ \E j \in 1..Len(Itemsets) :
           /\ Cardinality(Itemsets[j].itemsets) = 2
           /\ Itemsets[j].support = config.min_support
    /\ \E I \in (SUBSET Items) \ {{}} :
           /\ TransactionsWith(I) > 0
           /\ \A j \in 1..Len(Itemsets) : Itemsets[j].itemsets # I

\* C8. Anti-monotonicity: every non-empty subset S of a mined itemset I is
\* mined too, and support(I) <= support(S).
AntiMonotonicity ==
    Mined =>
        \A i \in 1..Len(Itemsets) :
            \A S \in (SUBSET Itemsets[i].itemsets) \ {{}} :
                \E j \in 1..Len(Itemsets) :
                    /\ Itemsets[j].itemsets = S
                    /\ RLeq(Itemsets[i].support, Itemsets[j].support)

\* The miner returned an itemset of three items whose support is below
\* that of one of its pairs, itself below one of its items.
AntiMonotonicityWitness ==
    /\ Mined
    /\ \E i, j, k \in 1..Len(Itemsets) :
           /\ Cardinality(Itemsets[i].itemsets) = 3
           /\ Cardinality(Itemsets[j].itemsets) = 2
           /\ Itemsets[k].itemsets \subseteq Itemsets[j].itemsets
           /\ RLt(Itemsets[i].support, Itemsets[j].support)
           /\ RLt(Itemsets[j].support, Itemsets[k].support)

\* C9. Rule well-formedness: every generated rule has a non-empty
\* antecedent and a non-empty consequent that are disjoint, their union is a
\* mined itemset, and the rule's support is that itemset's support.
Generated == pc \in {"generated", "scored", "filtered", "done"}

RuleWellFormed ==
    Generated =>
        \A r \in Range(raw_rules) :
            /\ r.antecedents # {}
            /\ r.consequents # {}
            /\ r.antecedents \cap r.consequents = {}
            /\ \E j \in 1..Len(Itemsets) :
                   /\ Itemsets[j].itemsets = r.antecedents \cup r.consequents
                   /\ Itemsets[j].support = r.support

\* Rules were generated from an itemset of three items, one with two items
\* in the antecedent and one with two in the consequent, of support below
\* the antecedent's.
RuleWellFormedWitness ==
    /\ Generated
    /\ \E r \in Range(raw_rules) :
           /\ Cardinality(r.antecedents) = 2
           /\ RLt(r.support, r.antecedent_support)
    /\ \E r \in Range(raw_rules) :
           /\ Cardinality(r.consequents) = 2
           /\ RLt(r.support, r.antecedent_support)

\* C10. Rule generation completeness: the generated rules contain every
\* split of every frequent itemset of two or more items into a non-empty
\* antecedent and a non-empty consequent.
RuleCompleteness ==
    Generated =>
        \A j \in 1..Len(Itemsets) :
            \A A \in (SUBSET Itemsets[j].itemsets)
                         \ {{}, Itemsets[j].itemsets} :
                \E r \in Range(raw_rules) :
                    /\ r.antecedents = A
                    /\ r.consequents = Itemsets[j].itemsets \ A

\* C11. Confidence and lift definitions: for every generated rule A -> B,
\* confidence = support(A u B) / support(A) and lift = confidence /
\* support(B), on the mined supports of A and B; supports 0.6, 0.5 and 0.4
\* give support 0.4, confidence 2/3 and lift 4/3.
MinedSupport(I) ==
    Itemsets[CHOOSE j \in 1..Len(Itemsets) : Itemsets[j].itemsets = I].support
IsScenarioA(r) ==
    /\ MinedSupport(r.antecedents) = Rat(6, 10)
    /\ MinedSupport(r.consequents) = Rat(5, 10)
    /\ MinedSupport(r.antecedents \cup r.consequents) = Rat(4, 10)

ConfidenceLiftDefinition ==
    Generated =>
        \A r \in Range(raw_rules) :
            /\ RMul(r.confidence, MinedSupport(r.antecedents))
                   = MinedSupport(r.antecedents \cup r.consequents)
            /\ RMul(r.lift, MinedSupport(r.consequents)) = r.confidence
            /\ IsScenarioA(r) =>
                   /\ r.support = Rat(4, 10)
                   /\ r.confidence = Rat(2, 3)
                   /\ r.lift = Rat(4, 3)

\* A rule was generated from itemsets of supports 0.6, 0.5 and 0.4.
ConfidenceLiftDefinitionWitness ==
    /\ Generated
    /\ \E r \in Range(raw_rules) : IsScenarioA(r) /\ r.lift = Rat(4, 3)

\* C12. Empty results are not errors: whenever no itemset reaches
\* min_support, also when the matrix has no rows, run() does not raise and
\* returns an empty Rule Set.
NoFrequentItemset == \A I \in (SUBSET Items) \ {{}} : ~IsFrequent(I)
Raised == pc = "raised"

EmptyResultNotError ==
    (config \in ValidConfigs /\ NoFrequentItemset) =>
        /\ ~Raised
        /\ Returned => RuleSet = <<>>

\* C13. Configuration errors fail fast: with an invalid threshold run()
\* raises at its start, before any itemset is mined and before itemsets_df
\* or rules_df is written.
Started == pc \notin {"build", "new", "fixture"}

ConfigErrorFailsFast ==
    (config \in InvalidConfigs /\ Started) =>
        /\ Raised
        /\ itemsets_df = None
        /\ rules_df = None

\* The last query was recommend(); its arguments, the rule set it ran on
\* and the rows it returned.
Recommended == call # None /\ call[1].method = "recommend"
Query == call[1]
Rules == recommender[1]
Rows == result[1].rows

\* The rules that match the query, and what they offer.
Matches(r) ==
    /\ r.antecedents \subseteq Query.basket
    /\ RGeq(r.confidence, Query.min_confidence)
MatchingRulesFor(item) ==
    {r \in Range(Rules) : Matches(r) /\ item \in r.consequents}
CandidateItems ==
    {item \in RecItems \ Query.basket : MatchingRulesFor(item) # {}}
BestConfidence(item) ==
    LET cs == {r.confidence : r \in MatchingRulesFor(item)}
    IN  CHOOSE c \in cs : \A d \in cs : RGeq(c, d)

\* v is x rounded to 4 decimals: v = k/10000 for the integer k nearest to
\* 10000 x.
IsRounded4(v, x) ==
    LET d  == x[2]
        r0 == x[1] % d
        r1 == (r0 * RoundStep) % d
        q  == (x[1] \div d) * RoundScale
                  + ((r0 * RoundStep) \div d) * RoundStep
                  + ((r1 * RoundStep) \div d)
        r  == (r1 * RoundStep) % d
        k  == v[1] * (RoundScale \div v[2])
    IN  /\ RoundScale % v[2] = 0
        /\ \/ k = q /\ 2 * r <= d
           \/ k = q + 1 /\ 2 * r >= d

\* C14. Exclusion of owned items: no row returned by recommend() has an
\* item that is in the input basket.
ExclusionOfOwnedItems ==
    Recommended => \A row \in Range(Rows) : row.item \notin Query.basket

\* A matching rule's consequent has an item of the basket and one outside
\* it, and recommendations were returned.
ExclusionOfOwnedItemsWitness ==
    /\ Recommended
    /\ Len(Rows) > 0
    /\ \E r \in Range(Rules) :
           /\ Matches(r)
           /\ r.consequents \cap Query.basket # {}
           /\ r.consequents \ Query.basket # {}

\* C15. No duplicate recommendations: each item is in at most one row of
\* the result of recommend(), also when several matching rules, of equal
\* confidence or not, recommend it.
NoDuplicateRecommendations ==
    Recommended =>
        \A i, j \in 1..Len(Rows) : i # j => Rows[i].item # Rows[j].item

\* A returned item is recommended by two matching rules of equal
\* confidence and by a third of another confidence.
NoDuplicateRecommendationsWitness ==
    /\ Recommended
    /\ \E row \in Range(Rows) :
           \E r1, r2, r3 \in MatchingRulesFor(row.item) :
               /\ r1 # r2
               /\ r1.confidence = r2.confidence
               /\ r3.confidence # r1.confidence

\* C16 as stated: the confidence reported for a returned item equals the
\* maximum confidence over the matching rules whose consequent has it.
BestRuleWins ==
    Recommended =>
        \A row \in Range(Rows) : row.confidence = BestConfidence(row.item)

\* C16, amended. The confidence reported for a returned item is the
\* maximum confidence over the matching rules whose consequent has it,
\* rounded to 4 decimals.
BestRuleWinsRounded ==
    Recommended =>
        \A row \in Range(Rows) :
            IsRounded4(row.confidence, BestConfidence(row.item))

\* A returned item has matching rules of different confidences and the
\* best is not a multiple of 0.0001.
BestRuleWinsRoundedWitness ==
    /\ Recommended
    /\ \E row \in Range(Rows) :
           /\ \E r \in MatchingRulesFor(row.item) :
                  r.confidence # BestConfidence(row.item)
           /\ row.confidence # BestConfidence(row.item)

\* C17. Matching soundness: every returned row is produced by a rule whose
\* antecedent is a subset of the basket and whose confidence is at least
\* min_confidence, and the row's item is in that rule's consequent.
MatchingSoundness ==
    Recommended =>
        \A row \in Range(Rows) :
            \E r \in Range(Rules) :
                /\ r.antecedents \subseteq Query.basket
                /\ RGeq(r.confidence, Query.min_confidence)
                /\ row.item \in r.consequents
                /\ row.rule.antecedents = r.antecedents
                /\ row.rule.consequents = r.consequents
                /\ IsRounded4(row.confidence, r.confidence)

\* Recommendations were returned while one rule of the set meets the basket
\* without being within it and another is below min_confidence.
MatchingSoundnessWitness ==
    /\ Recommended
    /\ Len(Rows) > 0
    /\ \E r \in Range(Rules) :
           /\ r.antecedents \cap Query.basket # {}
           /\ ~(r.antecedents \subseteq Query.basket)
    /\ \E r \in Range(Rules) :
           /\ r.antecedents \subseteq Query.basket
           /\ RLt(r.confidence, Query.min_confidence)

\* C18. Ranking and top_n: the result of recommend() is ordered by
\* confidence, non-increasing; for a positive top_n it has exactly
\* min(top_n, number of candidate items) rows; no candidate item left out
\* has a best confidence strictly greater than that of a returned item.
ReturnedItems == {Rows[j].item : j \in 1..Len(Rows)}

RankingAndTopN ==
    Recommended =>
        /\ \A i, j \in 1..Len(Rows) :
               i < j => RGeq(Rows[i].confidence, Rows[j].confidence)
        /\ Query.top_n > 0 =>
               Len(Rows) = IF Query.top_n < Cardinality(CandidateItems)
                           THEN Query.top_n
                           ELSE Cardinality(CandidateItems)
        /\ \A out \in CandidateItems \ ReturnedItems :
               \A in \in ReturnedItems :
                   /\ RLeq(BestConfidence(out), BestConfidence(in))
                   /\ \A row \in Range(Rows) :
                          row.item = in =>
                              RLeq(BestConfidence(out), row.confidence)

\* C19. Uniform empty result: recommend() returns the same empty result,
\* zero rows and the same shape, for an empty basket, for an empty rule
\* set, when no rule matches, and when every consequent item of the
\* matching rules is in the basket.
EmptyBasket == Query.basket = {}
EmptyRuleSet == Len(Rules) = 0
NoMatchingRule == \A r \in Range(Rules) : ~Matches(r)
AllConsequentsOwned ==
    /\ \E r \in Range(Rules) : Matches(r)
    /\ \A r \in Range(Rules) : Matches(r) => r.consequents \subseteq Query.basket

UniformEmptyResult ==
    Recommended =>
        /\ (EmptyBasket \/ EmptyRuleSet \/ NoMatchingRule \/ AllConsequentsOwned)
               => result[1] = EmptyDataFrame
        /\ result[1].columns \in {<<>>, RecommendColumns}

\* A rule matches a non-empty basket and every item it recommends is in
\* the basket.
UniformEmptyResultWitness ==
    /\ Recommended
    /\ ~EmptyBasket
    /\ AllConsequentsOwned
    /\ result[1] = EmptyDataFrame

\* The last query was get_popular_recommendations().
AskedPopular == call # None /\ call[1].method = "get_popular_recommendations"
RulesWith(item) == {j \in 1..Len(Rules) : item \in Rules[j].consequents}
ConsequentItems == {item \in RecItems : RulesWith(item) # {}}
RECURSIVE SumOf(_, _)
SumOf(S, field) ==
    IF S = {} THEN Zero
    ELSE LET j == CHOOSE j \in S : TRUE
         IN  RAdd(Rules[j][field], SumOf(S \ {j}, field))
MeanOf(item, field) ==
    RDiv(SumOf(RulesWith(item), field), Rat(Cardinality(RulesWith(item)), 1))

PopularShape ==
    /\ Len(Rows) <= Query.top_n
    /\ \A i, j \in 1..Len(Rows) : i # j => Rows[i].item # Rows[j].item
    /\ \A row \in Range(Rows) :
           row.rule_count = Cardinality(RulesWith(row.item))
    /\ \A i, j \in 1..Len(Rows) :
           i < j => Rows[i].rule_count >= Rows[j].rule_count
    /\ \A item \in ConsequentItems \ ReturnedItems :
           \A row \in Range(Rows) :
               Cardinality(RulesWith(item)) <= row.rule_count
    /\ EmptyRuleSet => result[1] = EmptyDataFrame

\* C20 as stated: get_popular_recommendations(top_n) returns at most top_n
\* items, each with the number of rules whose consequent has it and the
\* mean confidence and mean lift of those rules, ordered by rule_count,
\* non-increasing, no omitted item having a greater rule_count; an empty
\* rule set gives an empty result.
ColdStartRanking ==
    AskedPopular =>
        /\ PopularShape
        /\ \A row \in Range(Rows) :
               /\ row.avg_confidence = MeanOf(row.item, "confidence")
               /\ row.avg_lift = MeanOf(row.item, "lift")

\* C20, amended. As stated, with the mean confidence and the mean lift
\* rounded to 4 decimals.
ColdStartRankingRounded ==
    AskedPopular =>
        /\ PopularShape
        /\ \A row \in Range(Rows) :
               /\ IsRounded4(row.avg_confidence, MeanOf(row.item, "confidence"))
               /\ IsRounded4(row.avg_lift, MeanOf(row.item, "lift"))

\* An item with fewer rules is left out by top_n, and a returned item of
\* two rules or more has a mean that is not a multiple of 0.0001.
ColdStartRankingRoundedWitness ==
    /\ AskedPopular
    /\ Len(Rows) = Query.top_n
    /\ \E item \in ConsequentItems \ ReturnedItems :
           \E row \in Range(Rows) :
               Cardinality(RulesWith(item)) < row.rule_count
    /\ \E row \in Range(Rows) :
           /\ row.rule_count >= 2
           /\ row.avg_confidence # MeanOf(row.item, "confidence")

\* What a query returns when it runs alone on a rule set.
Answer(rules, query) ==
    IF query.method = "recommend"
    THEN recommend(rules, query.basket, query.top_n, query.min_confidence,
                   tie_order)
    ELSE IF query.method = "recommend_for_customer"
    THEN recommend_for_customer(rules, query.customer_id, query.baskets_df,
                                query.top_n, tie_order)
    ELSE get_popular_recommendations(rules, query.top_n, tie_order)

\* C21. Stateless engine: no query changes the Recommender's stored rule
\* set or the DataFrame given to the constructor, and what a query returns
\* is a function of the rule set and of its arguments only, whatever
\* queries came before.
StatelessEngine ==
    [][recommender # None =>
           /\ recommender' = recommender
           /\ rules_df' = rules_df
           /\ call' # None => result' = Some(Answer(rules_df[1], call'[1]))]_vars

\* recommend() returned rows from some of the rules only, so that a filter
\* applied to the stored rule set would have changed it.
StatelessEngineWitness ==
    /\ Recommended
    /\ Len(Rows) > 0
    /\ recommender = rules_df
    /\ \E r \in Range(Rules) : ~Matches(r)

\* C22. Concurrent queries are safe: with queries of several threads
\* interleaved on one Recommender, without a lock, each query returns what
\* it returns when it runs alone.
ConcurrentQueriesSafe ==
    \A t \in Threads :
        threads[t].pc = "done" =>
            threads[t].result = Some(Answer(rules_df[1], threads[t].query[1]))

\* A query returns rows while the other thread's query, another one, is
\* between its reads of the rule set.
ConcurrentQueriesSafeWitness ==
    \E t, u \in Threads :
        /\ threads[t].pc = "done"
        /\ Len(threads[t].result[1].rows) > 0
        /\ threads[u].pc \in {"checked", "selected"}
        /\ threads[u].query # threads[t].query
        /\ threads[u].query[1].method = "recommend"
        /\ \E r \in Range(rules_df[1]) :
               ~IsMatching(r, threads[u].query[1].basket,
                           threads[u].query[1].min_confidence)

Built == call # None /\ call[1].method = "build_one_hot_matrix"
Matrix == result[1]
ItemsOf(t) == Range(Query.transactions[t])
DistinctItems == UNION {ItemsOf(t) : t \in 1..Len(Query.transactions)}
AllNamed == DistinctItems \subseteq DOMAIN Query.name_map

\* C24. Transaction matrix invariant: build_one_hot_matrix() returns a
\* boolean matrix with one row per basket and one column per distinct item
\* of the baskets, labelled by the item's name in the id -> name mapping
\* (which has every item of the baskets), and cell [t, i] is true iff item
\* i is in basket t, an id that comes twice in a basket counting once.
TransactionMatrixInvariant ==
    (Built /\ AllNamed) =>
        /\ Len(Matrix.rows) = Len(Query.transactions)
        /\ Len(Matrix.columns) = Cardinality(DistinctItems)
        /\ \A t \in 1..Len(Matrix.rows) :
               /\ Len(Matrix.rows[t]) = Len(Matrix.columns)
               /\ \A k \in 1..Len(Matrix.columns) :
                      Matrix.rows[t][k] \in BOOLEAN
        /\ \A i \in DistinctItems :
               \E k \in 1..Len(Matrix.columns) :
                   /\ Matrix.columns[k] = Query.name_map[i]
                   /\ \A t \in 1..Len(Matrix.rows) :
                          Matrix.rows[t][k] <=> i \in ItemsOf(t)

\* Two baskets, one with an id twice, with an item in one basket only.
TransactionMatrixInvariantWitness ==
    /\ Built
    /\ AllNamed
    /\ Len(Query.transactions) = 2
    /\ \E t \in 1..2 : Len(Query.transactions[t]) > Cardinality(ItemsOf(t))
    /\ ItemsOf(1) # ItemsOf(2)
    /\ Len(Matrix.columns) = 2

\* C25. Analyzer lifecycle: rules_df and itemsets_df are None from
\* construction until run() is called; get_summary() is the empty dict
\* whenever rules_df is None or has no rule; after run() has returned both
\* fields are set, the Rule Set returned is rules_df, and
\* get_summary()["total_rules"] is the number of rules of rules_df.
AnalyzerLifecycle ==
    /\ pc = "new" => itemsets_df = None /\ rules_df = None
    /\ (rules_df = None \/ Len(RuleSet) = 0) =>
           get_summary(rules_df) = EmptyDict
    /\ Returned =>
           /\ itemsets_df # None
           /\ rules_df # None
           /\ RuleSet = sort_values(filtered_rules, tie_order)
           /\ Len(RuleSet) > 0 =>
                  get_summary(rules_df).total_rules = Len(RuleSet)

\* run() has returned a Rule Set of several rules, which was handed to a
\* Recommender, and the summary counts them.
AnalyzerLifecycleWitness ==
    /\ Returned
    /\ Len(RuleSet) >= 2
    /\ recommender = rules_df
    /\ get_summary(rules_df) # EmptyDict
    /\ get_summary(rules_df).total_rules = Len(RuleSet)
    /\ get_summary(rules_df).top_rule_zhang = round4(RuleSet[1].zhangs_metric)

AskedCustomer == call # None /\ call[1].method = "recommend_for_customer"
FromLoader(baskets_df) ==
    \A k \in 1..Len(baskets_df) : baskets_df[k].basket_items \subseteq ItemIds
RowsOf(customer_id, baskets_df) ==
    {k \in 1..Len(baskets_df) : baskets_df[k].customer_id = customer_id}
LatestBasket(customer_id, baskets_df) ==
    LET mine == RowsOf(customer_id, baskets_df)
        last == CHOOSE k \in mine : \A j \in mine : j <= k
    IN  baskets_df[last].basket_items
NamesOf(basket_items) == {item_name_map[id] : id \in basket_items}

\* C26 as stated. Customer query: recommend_for_customer() returns an
\* empty result when no row of baskets_df has the customer_id; otherwise,
\* for rules over item labels and loader baskets over item ids, a customer
\* whose latest basket contains the items of the antecedent of a rule (of
\* confidence at least RECOMMENDER_MIN_CONFIDENCE) is recommended that
\* rule's consequent items not in the basket, top_n allowing.
CustomerQuery ==
    (AskedCustomer /\ FromLoader(Query.baskets_df)) =>
        IF RowsOf(Query.customer_id, Query.baskets_df) = {}
        THEN result[1] = EmptyDataFrame
        ELSE LET owned ==
                     NamesOf(LatestBasket(Query.customer_id, Query.baskets_df))
             IN  \A r \in Range(Rules) :
                     (/\ r.antecedents \subseteq owned
                      /\ RGeq(r.confidence, RECOMMENDER_MIN_CONFIDENCE)
                      /\ Query.top_n >= Cardinality(RecItems)) =>
                         (r.consequents \ owned) \subseteq ReturnedItems

\* Every antecedent/consequent split of every frequent itemset, scored.
EverySplit == association_rules(Itemsets, APRIORI_METRIC, Zero)

\* C27. The generation-time threshold has no semantic effect: the final
\* Rule Set equals the strict three-threshold filter and the sort applied
\* to all the splits of all the frequent itemsets; the pre-filter
\* (lift >= 0.1) removes no rule the strict filter would keep.
GenerationThresholdNoEffect ==
    Returned =>
        /\ RuleSet =
               sort_values(filter_rules(add_zhangs_metric(EverySplit)),
                           tie_order)
        /\ \A r \in Range(add_zhangs_metric(EverySplit)) :
               RLt(r.lift, APRIORI_MIN_THRESHOLD) => ~FilterMask(r)

\* run() has returned on a matrix where the pre-filter removed splits of
\* a frequent itemset.
GenerationThresholdNoEffectWitness ==
    /\ Returned
    /\ Len(EverySplit) > 0
    /\ \E k \in 1..Len(EverySplit) :
           RLt(EverySplit[k].lift, APRIORI_MIN_THRESHOLD)

\* The itemsets whose support the search has computed beyond the first
\* level, and the subsets one item smaller of an itemset.
Evaluated ==
    Range(AprioriCandidates(one_hot_df, APRIORI_MIN_SUPPORT,
                            AprioriSingles(one_hot_df, APRIORI_MIN_SUPPORT)))
SubsetsBelow(I) == {I \ {x} : x \in I}

\* The search stops after at most as many levels as there are items, at
\* the first level where no candidate survives.
SearchTerminates ==
    itemsets_df # None =>
        /\ 1 + AprioriPasses(one_hot_df, APRIORI_MIN_SUPPORT,
                   AprioriSingles(one_hot_df, APRIORI_MIN_SUPPORT))
               <= Cardinality(Items) + 1
        /\ \A j \in 1..Len(Itemsets) :
               \A S \in SubsetsBelow(Itemsets[j].itemsets) :
                   S # {} => IsFrequent(S)

\* C28 as stated. Level-wise pruning and termination: the search computes
\* the support of a (k+1)-itemset only when all of its k-subsets are
\* frequent, and it ends at the first level at which no candidate
\* survives, after at most as many levels as there are items.
LevelWisePruning ==
    itemsets_df # None =>
        /\ \A c \in Evaluated :
               \A S \in SubsetsBelow(Range(c)) : IsFrequent(S)
        /\ SearchTerminates

\* C29. Candidate completeness of recommend(): every item of the
\* consequent of a matching rule that is not in the basket is a candidate,
\* also the remaining items of a consequent partly in the basket; when
\* top_n is at least the number of distinct candidates, every candidate
\* is in the result.
CandidateCompleteness ==
    (Recommended /\ Query.top_n >= Cardinality(CandidateItems)) =>
        /\ \A r \in Range(Rules) :
               Matches(r) => (r.consequents \ Query.basket) \subseteq ReturnedItems
        /\ ReturnedItems = CandidateItems

\* The only matching rule offering a returned item has another consequent
\* item that is in the basket, and a second candidate comes from another
\* rule.
CandidateCompletenessWitness ==
    /\ Recommended
    /\ Query.top_n >= Cardinality(CandidateItems)
    /\ Cardinality(ReturnedItems) >= 2
    /\ \E item \in ReturnedItems :
           /\ Cardinality(MatchingRulesFor(item)) = 1
           /\ \A r \in MatchingRulesFor(item) :
                  r.consequents \cap Query.basket # {}

\* The lift condition and the confidence condition of the filter, without
\* the strength condition.
PassesLift(r) ==
    /\ RGeq(r.confidence, APRIORI_MIN_CONFIDENCE)
    /\ RGt(r.lift, APRIORI_MIN_LIFT)

\* C30. Sign agreement of the two association filters: for every generated
\* rule Zhang's metric is > 0 exactly when lift > 1, and is 0 when lift = 1;
\* with the default thresholds min_lift = 1.0 and
\* min_association_strength = 0.0 the strength condition removes no rule
\* that passed the lift condition.
SignAgreement ==
    Scored =>
        /\ \A r \in Range(raw_rules) :
               /\ RGt(r.zhangs_metric, Zero) <=> RGt(r.lift, One)
               /\ r.lift = One => r.zhangs_metric = Zero
        /\ (config = DefaultConfig /\ pc \in {"filtered", "done"}) =>
               filtered_rules = SelectSeq(raw_rules, PassesLift)

\* Under the default thresholds the filter has kept a rule of lift > 1
\* and removed a rule of lift 1 and a rule of lift < 1.
SignAgreementWitness ==
    /\ pc = "filtered"
    /\ config = DefaultConfig
    /\ Len(filtered_rules) > 0
    /\ \E r \in Range(raw_rules) : r.lift = One /\ r.zhangs_metric = Zero
    /\ \E r \in Range(raw_rules) :
           RLt(r.lift, One) /\ RLt(r.zhangs_metric, Zero)

====
